---- MODULE Spec2Model ----
(***************************************************************************)
(* A model of html-form-validation (src/src/js/validator.js, v0.2.1).     *)
(*                                                                         *)
(* The form is a sequence of field containers in document order.  Every   *)
(* field carries its markup (the data-* attributes the validator reads),  *)
(* its current control value, its incorrect marker and the text rendered  *)
(* in its .error element.  The form carries the "validated" class.  A     *)
(* validation pass is one synchronous handler and is modelled as one      *)
(* action; the calls it makes are recorded, in order, in log.             *)
(*                                                                         *)
(* JavaScript values are tagged records [t, v]; the payload v is always a *)
(* string.  The messages of the "ru" catalog are transliterated, because  *)
(* module text is ASCII.                                                  *)
(*                                                                         *)
(* Spec has the documented languages, "en" and "ru"; SpecAnyLang starts    *)
(* from an instance constructed with another language.  SpecEs6 is the    *)
(* ES6 build of version 0.1 (src/unnamed/part_001), whose AJAX options    *)
(* can be a function that returns a promise of the options.               *)
(* SpecNoControl starts from a form whose field containers can lack their *)
(* input.  SpecAux has the options modal and removeErrorOnFocusOut on or  *)
(* off, an element outside the fields selector that can carry the class   *)
(* "incorrect", and the actions of the observers and of unbindOnClick.    *)
(***************************************************************************)
EXTENDS Integers, Sequences, FiniteSets, TLC

(***************************************************************************)
(* Bounds                                                                  *)
(***************************************************************************)
\* the largest number written in a data-length / data-min-length /
\* data-max-length attribute
MaxBound == 2

\* the largest number of fields of a form with several fields
NumFields == 2

(***************************************************************************)
(* JavaScript values                                                       *)
(***************************************************************************)
Undefined == [t |-> "undefined", v |-> ""]
JsNull == [t |-> "null", v |-> ""]
JsBool(b) == [t |-> "boolean", v |-> IF b THEN "true" ELSE "false"]
JsNum(s) == [t |-> "number", v |-> s]
JsStr(s) == [t |-> "string", v |-> s]
JsObject == [t |-> "object", v |-> ""]
JsFunction == [t |-> "function", v |-> ""]

\* the decimal numerals the model can tell from other strings
Numerals == (0 .. (MaxBound + 1)) \cup {123}

IsNumeral(s) == \E n \in Numerals : ToString(n) = s

NumeralValue(s) == CHOOSE n \in Numerals : ToString(n) = s

\* ToBoolean
Truthy(x) ==
  CASE x.t = "undefined" -> FALSE
    [] x.t = "null" -> FALSE
    [] x.t = "boolean" -> x.v = "true"
    [] x.t = "number" -> x.v # "0"
    [] x.t = "string" -> x.v # ""
    [] OTHER -> TRUE

\* the string a value contributes to a concatenation with +
JsToString(x) ==
  CASE x.t = "undefined" -> "undefined"
    [] x.t = "null" -> "null"
    [] OTHER -> x.v

\* x.length: defined for strings only
JsLength(x) == IF x.t = "string" THEN Len(x.v) ELSE 0

\* a === b
StrictEquals(a, b) == a.t = b.t /\ a.v = b.v

\* parseInt(x, 10) is a number (not NaN) on the values of the model
ParsesToInt(x) == x.t = "number" \/ (x.t = "string" /\ IsNumeral(x.v))

ParseInt(x) == NumeralValue(x.v)

(***************************************************************************)
(* Markup                                                                  *)
(***************************************************************************)
\* an attribute that is not written on the element
NoAttr == "<no attribute>"

\* jQuery's .data(key) on a data-* attribute: "true", "false", "null" and
\* numerals are converted, every other string is kept
JqData(attr) ==
  IF attr = NoAttr THEN Undefined
  ELSE IF attr = "true" THEN JsBool(TRUE)
  ELSE IF attr = "false" THEN JsBool(FALSE)
  ELSE IF attr = "null" THEN JsNull
  ELSE IF IsNumeral(attr) THEN JsNum(attr)
  ELSE JsStr(attr)

DEFAULTS ==
  [ textType |-> "text", phoneType |-> "phone", emailType |-> "email",
    checkboxType |-> "checkbox", radioType |-> "radio", selectType |-> "select",
    length |-> "length", equal |-> "equal",
    requiredToValidate |-> "required" ]

(***************************************************************************)
(* Message catalog (Validator, this.lang).  The "en" catalog has the key  *)
(* symbol where the "ru" catalog has symbols.                             *)
(***************************************************************************)
Lang ==
  [ ru |->
      [ emptyField |-> "Zapolnite pole",
        incorrectPhone |-> "Vvedite korrektnyj nomer",
        incorrectEmail |-> "Vvedite korrektnyj Email",
        incorrectSelect |-> "Vyberite odin iz variantov",
        symbols |-> "simvolov",
        reqFieldLength |-> "Neobhodimaja dlinna polja - ",
        maxFieldLength |-> "Maksimal'naja dlinna polja - ",
        minFieldLength |-> "Minimal'naja dlinna polja - ",
        minMaxFieldLengthFirst |-> "Kol-vo simvolov dolzhno byt' ne bolee ",
        minMaxFieldLengthSecond |-> " i ne menee ",
        notEqual |-> "Znachenie polja ne sovpalo s ozhidaemym" ],
    en |->
      [ emptyField |-> "Fill in the field, please",
        incorrectPhone |-> "Please, enter a valid number",
        incorrectEmail |-> "Please, enter a valid email",
        incorrectSelect |-> "Please, select an option",
        symbol |-> "symbols",
        reqFieldLength |-> "Required field length is - ",
        maxFieldLength |-> "Maximum field length is - ",
        minFieldLength |-> "Minimum field length is - ",
        minMaxFieldLengthFirst |-> "Number of characters should be less than ",
        minMaxFieldLengthSecond |-> " but not less than ",
        notEqual |-> "The field value did not match with the expected value" ] ]

\* lang[key]: a property the catalog does not have reads as undefined
LangGet(l, key) ==
  IF key \in DOMAIN Lang[l] THEN JsStr(Lang[l][key]) ELSE Undefined

(***************************************************************************)
(* Validator.validateEmail: the pattern, as a regular expression over the *)
(* characters of the value.  A regular expression is a record: a          *)
(* character class, a sequence, an alternative or a bounded repetition.   *)
(***************************************************************************)
LowerCase ==
  {"a", "b", "c", "d", "e", "f", "g", "h", "i", "j", "k", "l", "m", "n", "o", "p", "q", "r", "s", "t", "u", "v", "w", "x", "y", "z"}

UpperCase ==
  {"A", "B", "C", "D", "E", "F", "G", "H", "I", "J", "K", "L", "M", "N", "O", "P", "Q", "R", "S", "T", "U", "V", "W", "X", "Y", "Z"}

Digit ==
  {"0", "1", "2", "3", "4", "5", "6", "7", "8", "9"}

\* \w
Word == LowerCase \cup UpperCase \cup Digit \cup {"_"}

\* [\w-]
WordDash == Word \cup {"-"}

\* [\w-\s]
WordDashSpace == WordDash \cup {" "}

\* [a-z] without the flag i
Letter_CaseSensitive == LowerCase

\* [a-z] under the flag i
Letter == LowerCase \cup UpperCase

\* the characters of the values the model uses
Chars(s) ==
  CASE s = "" -> <<>>
    [] s = "a" -> <<"a">>
    [] s = "ab" -> <<"a", "b">>
    [] s = "foo" -> <<"f", "o", "o">>
    [] s = "bar" -> <<"b", "a", "r">>
    [] s = "123" -> <<"1", "2", "3">>
    [] s = "true" -> <<"t", "r", "u", "e">>
    [] s = "a@b.com" -> <<"a", "@", "b", ".", "c", "o", "m">>
    [] s = "A@B.COM" -> <<"A", "@", "B", ".", "C", "O", "M">>
    [] s = "a@b" -> <<"a", "@", "b">>
    [] s = "not-an-email" ->
         <<"n", "o", "t", "-", "a", "n", "-", "e", "m", "a", "i", "l">>

Cls(S) == [k |-> "cls", set |-> S]
Chr(c) == Cls({c})
Cat(a, b) == [k |-> "seq", a |-> a, b |-> b]
Alt(a, b) == [k |-> "alt", a |-> a, b |-> b]
Rep(a, lo, hi) == [k |-> "rep", a |-> a, lo |-> lo, hi |-> hi]

\* hi = -1: no upper limit
Plus(a) == Rep(a, 1, -1)
Star(a) == Rep(a, 0, -1)
Opt(a) == Rep(a, 0, 1)

RECURSIVE Ends(_, _, _)
RECURSIVE RepEnds(_, _, _, _, _, _)

\* the positions where a match of r that starts at a position of I can end
Ends(r, w, I) ==
  CASE r.k = "cls" -> {i + 1 : i \in {j \in I : j <= Len(w) /\ w[j] \in r.set}}
    [] r.k = "seq" -> Ends(r.b, w, Ends(r.a, w, I))
    [] r.k = "alt" -> Ends(r.a, w, I) \cup Ends(r.b, w, I)
    [] r.k = "rep" -> RepEnds(r.a, w, I, 0, r.lo, r.hi)

\* I: the positions reached after n repetitions of a
RepEnds(a, w, I, n, lo, hi) ==
  IF I = {} \/ n = hi \/ n > Len(w)
  THEN IF n >= lo THEN I ELSE {}
  ELSE (IF n >= lo THEN I ELSE {}) \cup RepEnds(a, w, Ends(a, w, I), n + 1, lo, hi)

\* "[\w-\s]+"
QuotedPart == Cat(Chr("\""), Cat(Plus(Cls(WordDashSpace)), Chr("\"")))

\* [\w-]+(?:\.[\w-]+)*
DottedPart == Cat(Plus(Cls(WordDash)), Star(Cat(Chr("."), Plus(Cls(WordDash)))))

LocalPart == Alt(QuotedPart, Alt(DottedPart, Cat(QuotedPart, DottedPart)))

\* @((?:[\w-]+\.)*\w[\w-]{0,66})\.([a-z]{2,6}(?:\.[a-z]{2})?)
DomainPart ==
  Cat(Chr("@"),
  Cat(Star(Cat(Plus(Cls(WordDash)), Chr("."))),
  Cat(Cls(Word),
  Cat(Rep(Cls(WordDash), 0, 66),
  Cat(Chr("."),
  Cat(Rep(Cls(Letter), 2, 6),
      Opt(Cat(Chr("."), Rep(Cls(Letter), 2, 2)))))))))

\* 25[0-5]|2[0-4][0-9]|1[0-9]{2}|[0-9]{1,2}
Octet ==
  Alt(Cat(Chr("2"), Cat(Chr("5"), Cls({"0", "1", "2", "3", "4", "5"}))),
  Alt(Cat(Chr("2"), Cat(Cls({"0", "1", "2", "3", "4"}), Cls(Digit))),
  Alt(Cat(Chr("1"), Rep(Cls(Digit), 2, 2)),
      Rep(Cls(Digit), 1, 2))))

\* @\[?(octet\.)(octet\.){2}octet\]?
AddressPart ==
  Cat(Chr("@"),
  Cat(Opt(Chr("[")),
  Cat(Cat(Octet, Chr(".")),
  Cat(Rep(Cat(Octet, Chr(".")), 2, 2),
  Cat(Octet, Opt(Chr("]")))))))

\* pattern.test(email): ^local(domain$) | (address$); the second
\* alternative is not anchored at the start of the value
validateEmail(email) ==
  LET w == Chars(email)
      end == Len(w) + 1
  IN  \/ end \in Ends(Cat(LocalPart, DomainPart), w, {1})
      \/ end \in Ends(AddressPart, w, 1 .. end)

(***************************************************************************)
(* State                                                                   *)
(***************************************************************************)
VARIABLES
  fields,     \* the markup of the field containers, in document order
  options,    \* this.options
  value,      \* the current value of each field's input, textarea or select
  checked,    \* the number of checked and visible inputs of each radio or
              \* checkbox field
  incorrect,  \* which field containers carry the class "incorrect"
  errText,    \* the text of each field's .error element
  validated,  \* whether the form carries the class "validated"
  log,        \* the calls made by the last handler, in order
  calls,      \* ES6 build: for each pass, the state of its call of the
              \* options producer
  transport,  \* ES6 build: the requests handed to $.ajax, in order
  control,    \* which field containers hold the control the validator reads
  stray,      \* whether an element of the form that the fields selector
              \* does not match carries the class "incorrect"
  bindings    \* the handlers that are bound: "click" to the button,
              \* "outside" to the body, "modal" to the modal of the form

vars ==
  <<fields, options, value, checked, incorrect, errText, validated, log,
    calls, transport, control, stray, bindings>>

FieldIds == DOMAIN fields

\* the presentation state a handler works on
Dom == [incorrect |-> incorrect, errText |-> errText, validated |-> validated,
        log |-> <<>>]

Event(name, f) == [ev |-> name, f |-> f]

Logged(st, name, f) == [st EXCEPT !.log = Append(@, Event(name, f))]

lang == options.lang

(***************************************************************************)
(* Field rules                                                             *)
(***************************************************************************)
FieldParams(condition, errorText, length) ==
  [condition |-> condition, errorText |-> errorText, length |-> length]

\* valueLength <= parseInt(maxLength, 10); a comparison with NaN is false
AtMostParsed(valueLength, maxLength) ==
  ParsesToInt(maxLength) /\ valueLength <= ParseInt(maxLength)

\* valueLength >= parseInt(minLength, 10)
AtLeastParsed(valueLength, minLength) ==
  ParsesToInt(minLength) /\ valueLength >= ParseInt(minLength)

\* valueLength === parseInt(length, 10)
EqualsParsed(valueLength, length) ==
  ParsesToInt(length) /\ valueLength = ParseInt(length)

\* case DEFAULTS.length of validateTextField
validateLength(f) ==
  LET valueLength == Len(value[f])
      length == JqData(fields[f].dataLength)
      maxLength == JqData(fields[f].dataMaxLength)
      minLength == JqData(fields[f].dataMinLength)
      symbols == JsToString(LangGet(lang, "symbols"))
  IN  IF Truthy(length)
      THEN FieldParams(
             JsBool(EqualsParsed(valueLength, length)),
             JsStr(Lang[lang].reqFieldLength \o JsToString(length) \o " " \o symbols),
             valueLength)
      ELSE IF Truthy(maxLength) /\ Truthy(minLength)
      THEN FieldParams(
             JsBool(AtMostParsed(valueLength, maxLength)
                    /\ AtLeastParsed(valueLength, minLength)),
             JsStr(Lang[lang].minMaxFieldLengthFirst \o JsToString(maxLength)
                   \o Lang[lang].minMaxFieldLengthSecond \o JsToString(minLength)),
             valueLength)
      ELSE IF Truthy(maxLength)
      THEN FieldParams(
             JsBool(AtMostParsed(valueLength, maxLength)),
             JsStr(Lang[lang].maxFieldLength \o JsToString(maxLength) \o " " \o symbols),
             valueLength)
      ELSE IF Truthy(minLength)
      THEN FieldParams(
             JsBool(AtLeastParsed(valueLength, minLength)),
             JsStr(Lang[lang].minFieldLength \o JsToString(minLength) \o " " \o symbols),
             valueLength)
      ELSE FieldParams(Undefined, Undefined, valueLength)

\* case DEFAULTS.equal of validateTextField
validateEqual(f) ==
  LET neededValue == JqData(fields[f].dataEqual)
  IN  FieldParams(JsBool(StrictEquals(JsStr(value[f]), neededValue)),
                  JsStr(Lang[lang].notEqual),
                  Len(value[f]))

validateTextField(f) ==
  LET conditionType == JqData(fields[f].condition)
  IN  IF StrictEquals(conditionType, JsStr(DEFAULTS.length)) THEN validateLength(f)
      ELSE IF StrictEquals(conditionType, JsStr(DEFAULTS.equal)) THEN validateEqual(f)
      ELSE FieldParams(Undefined, Undefined, Len(value[f]))

\* the result carries no errorText
validateEmailField(f) ==
  FieldParams(JsBool(validateEmail(value[f])), Undefined, Len(value[f]))

\* checkedVisibleRadio.length > 1
validateRadioField_MoreThanOne(f) == checked[f] > 1

validateRadioField(f) == checked[f] >= 1

\* Number(value) is 0, for a value the model uses: the empty string, a
\* string of white space and every numeral of zero
NumberIsZero(s) == s \in {"", " ", "0", "00", "0.0"}

\* value && value !== '0'
validateSelectField_StrictZero(f) ==
  FieldParams(JsBool(value[f] \notin {"", "0"}), Undefined, 1)

\* value && value != 0
validateSelectField(f) ==
  LET v == IF control[f] THEN JsStr(value[f]) ELSE Undefined
  IN  FieldParams(IF Truthy(v) THEN JsBool(~NumberIsZero(value[f])) ELSE v,
                  Undefined, 1)

\* the switch of validateField with the message radioText in the radio
\* case and, if checkboxCase, a case that evaluates a checkbox field like
\* a radio field
fieldParams_Switch(f, radioText, checkboxCase) ==
  LET type == JqData(fields[f].type)
      is(t) == StrictEquals(type, JsStr(t))
  IN  IF is(DEFAULTS.textType) THEN validateTextField(f)
      ELSE IF is(DEFAULTS.phoneType)
      THEN [validateTextField(f) EXCEPT !.errorText = JsStr(Lang[lang].incorrectPhone)]
      ELSE IF is(DEFAULTS.emailType)
      THEN [validateEmailField(f) EXCEPT !.errorText = JsStr(Lang[lang].incorrectEmail)]
      ELSE IF is(DEFAULTS.radioType) \/ (checkboxCase /\ is("checkbox"))
      THEN FieldParams(JsBool(validateRadioField(f)), JsStr(radioText), 1)
      ELSE IF is(DEFAULTS.selectType)
      THEN [validateSelectField(f) EXCEPT !.errorText = JsStr(Lang[lang].incorrectSelect)]
      ELSE FieldParams(JsBool(TRUE), JsStr(Lang[lang].emptyField), 1)

\* a failed radio field shows the message of a failed select field
fieldParams_RadioAsSelect(f) ==
  fieldParams_Switch(f, Lang[lang].incorrectSelect, FALSE)

\* a checkbox field needs a checked and visible checkbox
fieldParams_CheckboxCase(f) ==
  fieldParams_Switch(f, Lang[lang].emptyField, TRUE)

\* the parameters validateField hands to checkFieldValidness
fieldParams(f) ==
  LET type == JqData(fields[f].type)
      is(t) == StrictEquals(type, JsStr(t))
  IN  IF is(DEFAULTS.textType) THEN validateTextField(f)
      ELSE IF is(DEFAULTS.phoneType)
      THEN [validateTextField(f) EXCEPT !.errorText = JsStr(Lang[lang].incorrectPhone)]
      ELSE IF is(DEFAULTS.emailType)
      THEN [validateEmailField(f) EXCEPT !.errorText = JsStr(Lang[lang].incorrectEmail)]
      ELSE IF is(DEFAULTS.radioType)
      THEN FieldParams(JsBool(validateRadioField(f)), JsStr(Lang[lang].emptyField), 1)
      ELSE IF is(DEFAULTS.selectType)
      THEN [validateSelectField(f) EXCEPT !.errorText = JsStr(Lang[lang].incorrectSelect)]
      ELSE FieldParams(JsBool(TRUE), JsStr(Lang[lang].emptyField), 1)

(***************************************************************************)
(* Field state                                                             *)
(***************************************************************************)
\* a field that fails takes the class 'validated' off the form
throwError_Unsets(st, f, errorText) ==
  LET marked == [st EXCEPT !.incorrect[f] = TRUE,
                           !.validated = FALSE,
                           !.errText[f] = IF errorText.t = "undefined" THEN @
                                          ELSE JsToString(errorText)]
  IN  Logged(marked, "throwError", f)

\* $field.addClass('incorrect'); $error.text(errorText): .text(undefined)
\* sets nothing
throwError(st, f, errorText) ==
  LET marked == [st EXCEPT !.incorrect[f] = TRUE,
                           !.errText[f] = IF errorText.t = "undefined" THEN @
                                          ELSE JsToString(errorText)]
  IN  Logged(marked, "throwError", f)

\* this.$form.toggleClass('validated')
addClassValidated_Toggle(st, f) ==
  Logged([st EXCEPT !.validated = ~@], "addClassValidated", f)

\* this.$form.addClass('validated')
addClassValidated(st, f) ==
  Logged([st EXCEPT !.validated = TRUE], "addClassValidated", f)

\* the custom text overrides the message of an empty field too
checkFieldValidness_TextFirst(st, f, condition, errorText, valueLength) ==
  LET dataText == JqData(fields[f].text)
      custom == Truthy(dataText) /\ JsLength(dataText) # 0
  IN  IF valueLength = 0
      THEN throwError(st, f, IF custom THEN dataText ELSE JsStr(Lang[lang].emptyField))
      ELSE IF ~Truthy(condition) THEN throwError(st, f, IF custom THEN dataText ELSE errorText)
      ELSE addClassValidated(st, f)

checkFieldValidness(st, f, condition, errorText, valueLength) ==
  LET dataText == JqData(fields[f].text)
      text == IF Truthy(dataText) /\ JsLength(dataText) # 0 THEN dataText
              ELSE errorText
  IN  IF valueLength = 0 THEN throwError(st, f, JsStr(Lang[lang].emptyField))
      ELSE IF ~Truthy(condition) THEN throwError(st, f, text)
      ELSE addClassValidated(st, f)

\* the handler has thrown: the rest of the pass does not run
Thrown(st) == \E i \in DOMAIN st.log : st.log[i].ev = "TypeError"

\* the field has one of the types whose rule reads value.length, and holds
\* no input (for the text and phone types: and no textarea): .val() of no
\* element is undefined
NoValue(f) ==
  /\ ~control[f]
  /\ \E t \in {DEFAULTS.textType, DEFAULTS.phoneType, DEFAULTS.emailType} :
       StrictEquals(JqData(fields[f].type), JsStr(t))

\* this.lang[this.options.lang] is undefined for a language the catalog
\* does not have, and reading lang.emptyField throws a TypeError; so does
\* reading value.length of the value of a field with no control
validateField(st, f) ==
  IF lang \notin DOMAIN Lang THEN Logged(st, "TypeError", f)
  ELSE IF NoValue(f) THEN Logged(Logged(st, "validateField", f), "TypeError", f)
  ELSE LET p == fieldParams(f)
       IN  checkFieldValidness(Logged(st, "validateField", f), f,
                               p.condition, p.errorText, p.length)

\* the markers of the required fields only
removeIncorrectState_RequiredOnly(st) ==
  Logged([st EXCEPT !.incorrect =
            [f \in FieldIds |-> st.incorrect[f] /\ fields[f].validation # "required"]],
         "removeIncorrectState", 0)

RECURSIVE removeClassFrom(_, _)
\* $formFields.removeClass('incorrect'), from the field at index f on
removeClassFrom(st, f) ==
  IF f > Len(fields) THEN st
  ELSE removeClassFrom(IF st.incorrect[f]
                       THEN Logged([st EXCEPT !.incorrect[f] = FALSE],
                                   "removeClassIncorrect", f)
                       ELSE st,
                       f + 1)

removeIncorrectState(st) ==
  removeClassFrom(Logged(st, "removeIncorrectState", 0), 1)

RECURSIVE validateFieldsFrom(_, _)
\* $formFields.each, from the field at index f on
validateFieldsFrom(st, f) ==
  IF f > Len(fields) \/ Thrown(st) THEN st
  ELSE LET requiredToValidate ==
             StrictEquals(JqData(fields[f].validation),
                          JsStr(DEFAULTS.requiredToValidate))
       IN  validateFieldsFrom(IF requiredToValidate THEN validateField(st, f) ELSE st,
                              f + 1)

validateAllFields(st) == validateFieldsFrom(st, 1)

\* !incorrectFields.length
formIsValid_NoFlag(st) == (\A f \in FieldIds : ~st.incorrect[f]) /\ ~stray

\* !incorrectFields.length && this.$form.hasClass('validated'): every
\* element of the form with the class 'incorrect' counts
formIsValid(st) == (\A f \in FieldIds : ~st.incorrect[f]) /\ ~stray /\ st.validated

\* callback(this) whenever a callback is configured: a value that is not a
\* function throws
checkAndRunCallback_NoTypeCheck(st, callback, name) ==
  IF callback.t = "function" THEN Logged(st, name, 0)
  ELSE IF callback.t \notin {"undefined", "null"} THEN Logged(st, "TypeError", 0)
  ELSE st

checkAndRunCallback(st, callback, name) ==
  IF callback.t = "function" THEN Logged(st, name, 0)
  ELSE IF callback.t \notin {"undefined", "null"} THEN Logged(st, "console.warn", 0)
  ELSE st

\* onValid runs only together with the request
formIsValidCallback_OnValidWithAjax(st) ==
  IF Truthy(options.ajax)
  THEN Logged(checkAndRunCallback(st, options.onValid, "onValid"), "ajax", 0)
  ELSE st

formIsValidCallback(st) ==
  LET called == checkAndRunCallback(st, options.onValid, "onValid")
  IN  IF Truthy(options.ajax) THEN Logged(called, "ajax", 0) ELSE called

\* afterValidation reached only when the form is valid
sendIfValidated_AfterOnlyIfValid(st) ==
  LET before == checkAndRunCallback(st, options.beforeValidation, "beforeValidation")
  IN  IF formIsValid(before)
      THEN checkAndRunCallback(formIsValidCallback(before),
                               options.afterValidation, "afterValidation")
      ELSE before

sendIfValidated(st) ==
  LET before == checkAndRunCallback(st, options.beforeValidation, "beforeValidation")
      sent == IF formIsValid(before) THEN formIsValidCallback(before) ELSE before
  IN  checkAndRunCallback(sent, options.afterValidation, "afterValidation")

runFormValidation(st) ==
  LET evaluated == validateAllFields(removeIncorrectState(st))
  IN  IF Thrown(evaluated) THEN evaluated ELSE sendIfValidated(evaluated)

(***************************************************************************)
(* The forms and options the model is run on                               *)
(***************************************************************************)
Markup(validation, type, text, condition, dataLength, dataMinLength, dataMaxLength, dataEqual) ==
  [ validation |-> validation, type |-> type, text |-> text,
    condition |-> condition, dataLength |-> dataLength,
    dataMinLength |-> dataMinLength, dataMaxLength |-> dataMaxLength,
    dataEqual |-> dataEqual ]

\* the values of data-length, data-min-length and data-max-length
BoundAttrs == {NoAttr} \cup {ToString(n) : n \in 0 .. MaxBound}

\* the values of data-validation-text
TextAttrs == {NoAttr, "", "Incorrect data", "123"}

\* text fields with the length condition and every combination of bounds
LengthMarkups ==
  { Markup("required", "text", NoAttr, "length", l, mn, mx, NoAttr) :
      l \in BoundAttrs, mn \in BoundAttrs, mx \in BoundAttrs }

\* text and phone fields with each kind of condition and error text
TextMarkups ==
  { Markup("required", ty, tx, c[1], NoAttr, c[2], c[3], c[4]) :
      ty \in {"text", "phone"}, tx \in TextAttrs,
      c \in { <<NoAttr, NoAttr, NoAttr, NoAttr>>,
              <<"length", NoAttr, NoAttr, NoAttr>>,
              <<"length", "1", "2", NoAttr>>,
              <<"equal", NoAttr, NoAttr, "foo">> } }

\* text fields with the equal condition
EqualMarkups ==
  { Markup("required", "text", NoAttr, "equal", NoAttr, NoAttr, NoAttr, e) :
      e \in {NoAttr, "foo", "123", "true"} }

\* fields of the other types, of an unknown type and of no type
OtherMarkups ==
  { Markup("required", ty, tx, NoAttr, NoAttr, NoAttr, NoAttr, NoAttr) :
      ty \in {"email", "select", "radio", "checkbox", "date", NoAttr},
      tx \in TextAttrs }

\* the fields of a form with several fields
PlainMarkups ==
  { Markup(v, "text", NoAttr, "equal", NoAttr, NoAttr, NoAttr, "foo") :
      v \in {"required", "false"} }

RECURSIVE SeqsOf(_, _)
\* the sequences of n elements of S
SeqsOf(S, n) ==
  IF n = 0 THEN {<<>>}
  ELSE {Append(q, x) : q \in SeqsOf(S, n - 1), x \in S}

\* forms with one field, for the rules of a field
FieldForms ==
  {<<m>> : m \in LengthMarkups \cup TextMarkups \cup EqualMarkups \cup OtherMarkups}

\* forms with several fields, for the course of a pass
PlainForms == UNION {SeqsOf(PlainMarkups, n) : n \in 2 .. NumFields}

LangValues == {"en", "ru"}

AjaxValues == {JsObject, JsBool(FALSE)}

HookValues == {JsFunction, JsNull}

\* every hook is a function
HookedOptions ==
  [ lang : LangValues, ajax : AjaxValues, beforeValidation : {JsFunction},
    afterValidation : {JsFunction}, onValid : {JsFunction},
    modal : {FALSE}, removeErrorOnFocusOut : {FALSE} ]

\* each hook is a function or is not configured, or no hook is invocable
Options ==
  [ lang : {"en"}, ajax : AjaxValues, beforeValidation : HookValues,
    afterValidation : HookValues, onValid : HookValues,
    modal : {FALSE}, removeErrorOnFocusOut : {FALSE} ]
  \cup
  [ lang : {"en"}, ajax : AjaxValues, beforeValidation : {JsStr("hook")},
    afterValidation : {JsStr("hook")}, onValid : {JsStr("hook")},
    modal : {FALSE}, removeErrorOnFocusOut : {FALSE} ]

\* a language the catalog does not have; the constructor takes any value
UnknownLangOptions ==
  [ lang : {"de"}, ajax : AjaxValues, beforeValidation : {JsFunction},
    afterValidation : {JsFunction}, onValid : {JsFunction},
    modal : {FALSE}, removeErrorOnFocusOut : {FALSE} ]

\* the values a user can give the control of field f
ValuesOf(f) ==
  CASE fields[f].type \in {"text", "phone"} ->
         IF Len(fields) = 1 THEN {"", "a", "ab", "foo", "123", "true"}
         ELSE {"", "foo"}
    [] fields[f].type = "email" -> {"", "a@b.com", "A@B.COM", "a@b", "not-an-email"}
    [] fields[f].type = "select" -> {"", "0", "1", "00", " ", "abc"}
    [] OTHER -> {""}

(***************************************************************************)
(* Specification                                                           *)
(***************************************************************************)
\* init(): the click handler, and the observers the options ask for (the
\* form of an instance with the modal option is nested in a .modal)
InitBindings ==
  {"click"} \cup (IF options.modal THEN {"modal"} ELSE {})
            \cup (IF options.removeErrorOnFocusOut THEN {"outside"} ELSE {})

\* a field can be served marked incorrect, with the message of the server
Init ==
  /\ \/ fields \in FieldForms /\ options \in HookedOptions
     \/ fields \in PlainForms /\ options \in Options
  /\ value = [f \in FieldIds |-> ""]
  /\ checked = [f \in FieldIds |-> 0]
  /\ incorrect \in [FieldIds -> BOOLEAN]
  /\ errText = [f \in FieldIds |-> IF incorrect[f] THEN "Rendered with the page" ELSE ""]
  /\ validated = FALSE
  /\ log = <<>>
  /\ calls = <<>>
  /\ transport = <<>>
  /\ control = [f \in FieldIds |-> TRUE]
  /\ stray = FALSE
  /\ bindings = InitBindings

\* the user edits the control of a field
SetValue(f, v) ==
  /\ control[f]
  /\ v # value[f]
  /\ value' = [value EXCEPT ![f] = v]
  /\ log' = <<>>
  /\ UNCHANGED <<fields, options, checked, incorrect, errText, validated>>
  /\ UNCHANGED <<calls, transport, control, stray, bindings>>

\* the user checks an input of a radio or checkbox field and the input is
\* visible (n = 1), or the checked input is unchecked or hidden (n = 0)
SetChecked(f, n) ==
  /\ fields[f].type \in {"radio", "checkbox"}
  /\ n # checked[f]
  /\ checked' = [checked EXCEPT ![f] = n]
  /\ log' = <<>>
  /\ UNCHANGED <<fields, options, value, incorrect, errText, validated>>
  /\ UNCHANGED <<calls, transport, control, stray, bindings>>

\* the click handler bound by bindOnClickValidation
ClickValidate ==
  LET st == runFormValidation(Dom)
  IN  /\ "click" \in bindings
      /\ incorrect' = st.incorrect
      /\ errText' = st.errText
      /\ validated' = st.validated
      /\ log' = st.log
      /\ UNCHANGED <<fields, options, value, checked, calls, transport>>
      /\ UNCHANGED <<control, stray, bindings>>

Next ==
  \/ \E f \in FieldIds : \E v \in ValuesOf(f) : SetValue(f, v)
  \/ \E f \in FieldIds : \E n \in 0 .. 1 : SetChecked(f, n)
  \/ ClickValidate

Spec == Init /\ [][Next]_vars

\* the state after new Validator(form, {lang: 'de'}): the constructor
\* stores the option as it is given
InitAnyLang ==
  /\ \/ fields \in FieldForms
     \/ fields \in PlainForms
  /\ options \in UnknownLangOptions
  /\ value = [f \in FieldIds |-> ""]
  /\ checked = [f \in FieldIds |-> 0]
  /\ incorrect \in [FieldIds -> BOOLEAN]
  /\ errText = [f \in FieldIds |-> IF incorrect[f] THEN "Rendered with the page" ELSE ""]
  /\ validated = FALSE
  /\ log = <<>>
  /\ calls = <<>>
  /\ transport = <<>>
  /\ control = [f \in FieldIds |-> TRUE]
  /\ stray = FALSE
  /\ bindings = InitBindings

SpecAnyLang == InitAnyLang /\ [][Next]_vars

\* the state after construction on a form in which a field container can
\* lack its input, textarea or select
InitNoControl ==
  /\ \/ fields \in {<<m>> : m \in TextMarkups \cup OtherMarkups}
     \/ fields \in PlainForms
  /\ options \in HookedOptions
  /\ value = [f \in FieldIds |-> ""]
  /\ checked = [f \in FieldIds |-> 0]
  /\ incorrect \in [FieldIds -> BOOLEAN]
  /\ errText = [f \in FieldIds |-> IF incorrect[f] THEN "Rendered with the page" ELSE ""]
  /\ validated = FALSE
  /\ log = <<>>
  /\ calls = <<>>
  /\ transport = <<>>
  /\ control \in [FieldIds -> BOOLEAN]
  /\ stray = FALSE
  /\ bindings = InitBindings

SpecNoControl == InitNoControl /\ [][Next]_vars

(***************************************************************************)
(* The observers and unbindOnClick                                         *)
(***************************************************************************)
\* forms of two text fields, each required or not
AuxForms == SeqsOf(PlainMarkups, 2)

\* the observers are asked for or not; onValid shows the decision
AuxOptions ==
  [ lang : {"en"}, ajax : {JsObject}, beforeValidation : {JsNull},
    afterValidation : {JsNull}, onValid : {JsFunction},
    modal : BOOLEAN, removeErrorOnFocusOut : BOOLEAN ]

\* an element that the fields selector does not match can be served with
\* the class "incorrect"
InitAux ==
  /\ fields \in AuxForms
  /\ options \in AuxOptions
  /\ value = [f \in FieldIds |-> ""]
  /\ checked = [f \in FieldIds |-> 0]
  /\ incorrect = [f \in FieldIds |-> FALSE]
  /\ errText = [f \in FieldIds |-> ""]
  /\ validated = FALSE
  /\ log = <<>>
  /\ calls = <<>>
  /\ transport = <<>>
  /\ control = [f \in FieldIds |-> TRUE]
  /\ stray \in BOOLEAN
  /\ bindings = InitBindings

\* the handler of an event that calls removeIncorrectState
ClearOn(event) == removeIncorrectState([Dom EXCEPT !.log = <<Event(event, 0)>>])

\* a click or tap on the body outside the form
OutsideClick ==
  /\ "outside" \in bindings
  /\ incorrect' = ClearOn("click tap").incorrect
  /\ errText' = ClearOn("click tap").errText
  /\ log' = ClearOn("click tap").log
  /\ UNCHANGED <<fields, options, value, checked, validated, calls, transport>>
  /\ UNCHANGED <<control, stray, bindings>>

\* the modal of the form is hidden
ModalClose ==
  /\ "modal" \in bindings
  /\ incorrect' = ClearOn("hidden.bs.modal").incorrect
  /\ errText' = ClearOn("hidden.bs.modal").errText
  /\ log' = ClearOn("hidden.bs.modal").log
  /\ UNCHANGED <<fields, options, value, checked, validated, calls, transport>>
  /\ UNCHANGED <<control, stray, bindings>>

\* $button.unbind() and the unbinding of the observers too
unbindOnClick_All ==
  /\ bindings' = {}
  /\ log' = <<Event("unbindOnClick", 0)>>
  /\ UNCHANGED <<fields, options, value, checked, incorrect, errText, validated>>
  /\ UNCHANGED <<calls, transport, control, stray>>

\* $button.unbind('click.validation tap.validation')
unbindOnClick ==
  /\ bindings' = bindings \ {"click"}
  /\ log' = <<Event("unbindOnClick", 0)>>
  /\ UNCHANGED <<fields, options, value, checked, incorrect, errText, validated>>
  /\ UNCHANGED <<calls, transport, control, stray>>

NextAux ==
  \/ \E f \in FieldIds : \E v \in ValuesOf(f) : SetValue(f, v)
  \/ ClickValidate
  \/ OutsideClick
  \/ ModalClose
  \/ unbindOnClick

SpecAux == InitAux /\ [][NextAux]_vars

(***************************************************************************)
(* The ES6 build (version 0.1)                                             *)
(*                                                                         *)
(* new Validator(form, ajaxOptions, options): ajaxOptions is an object or  *)
(* a function that returns the options of the request or a promise of     *)
(* them; options.ajax stands for this.ajaxOptions.  The build has no hooks *)
(* and no catalog: its fixed messages are those of the "ru" catalog, and   *)
(* its removeIncorrectState, validateAllFields and formIsValid are those   *)
(* of validator.js.                                                        *)
(***************************************************************************)
\* the number of passes of a run of the ES6 build
MaxPasses == 2

\* the options a producer can resolve to
ResolvedOptions == {"options A", "options B"}

\* the pass did not call the producer
NoCall == [st |-> "none", options |-> ""]

\* the promise of options(_this) is pending, was rejected, was resolved
Pending == [st |-> "pending", options |-> ""]

Rejected == [st |-> "rejected", options |-> ""]

Resolved(o) == [st |-> "resolved", options |-> o]

Request(p, o) == [pass |-> p, options |-> o]

Es6Dom ==
  [incorrect |-> incorrect, errText |-> errText, validated |-> validated,
   log |-> <<>>, calls |-> calls, transport |-> transport]

\* $.ajax(options) with the function itself, and no call of it
callAjaxWithOptions_NoAwait(st) ==
  [Logged(st, "ajax", 0) EXCEPT
     !.calls = Append(@, NoCall),
     !.transport = Append(@, Request(Len(st.calls) + 1, "ajaxOptions"))]

\* the async function runs up to its await inside the pass
callAjaxWithOptions(st) ==
  IF options.ajax.t = "function"
  THEN Logged([st EXCEPT !.calls = Append(@, Pending)], "options(_this)", 0)
  ELSE [Logged(st, "ajax", 0) EXCEPT
          !.calls = Append(@, NoCall),
          !.transport = Append(@, Request(Len(st.calls) + 1, "ajaxOptions"))]

\* a pass gives up the calls that are pending
sendIfValidatedEs6_CancelsPending(st) ==
  LET cancelled ==
        [st EXCEPT !.calls = [p \in DOMAIN @ |-> IF @[p] = Pending THEN Rejected ELSE @[p]]]
  IN  IF formIsValid(cancelled) THEN callAjaxWithOptions(cancelled)
      ELSE [cancelled EXCEPT !.calls = Append(@, NoCall)]

sendIfValidatedEs6(st) ==
  IF formIsValid(st) THEN callAjaxWithOptions(st)
  ELSE [st EXCEPT !.calls = Append(@, NoCall)]

runFormValidationEs6(st) ==
  sendIfValidatedEs6(validateAllFields(removeIncorrectState(st)))

\* forms of one text field, required or not
Es6Forms == {<<m>> : m \in PlainMarkups}

Es6Options ==
  [ lang : {"ru"}, ajax : {JsObject, JsFunction}, beforeValidation : {JsNull},
    afterValidation : {JsNull}, onValid : {JsNull},
    modal : {FALSE}, removeErrorOnFocusOut : {FALSE} ]

InitEs6 ==
  /\ fields \in Es6Forms
  /\ options \in Es6Options
  /\ value = [f \in FieldIds |-> ""]
  /\ checked = [f \in FieldIds |-> 0]
  /\ incorrect \in [FieldIds -> BOOLEAN]
  /\ errText = [f \in FieldIds |-> IF incorrect[f] THEN "Rendered with the page" ELSE ""]
  /\ validated = FALSE
  /\ log = <<>>
  /\ calls = <<>>
  /\ transport = <<>>
  /\ control = [f \in FieldIds |-> TRUE]
  /\ stray = FALSE
  /\ bindings = InitBindings

\* the click handler bound by bindOnClickValidation
ClickValidateEs6 ==
  /\ Len(calls) < MaxPasses
  /\ LET st == runFormValidationEs6(Es6Dom)
     IN  /\ incorrect' = st.incorrect
         /\ errText' = st.errText
         /\ validated' = st.validated
         /\ log' = st.log
         /\ calls' = st.calls
         /\ transport' = st.transport
  /\ UNCHANGED <<fields, options, value, checked, control, stray, bindings>>

\* the promise of the pass p resolves to o: callAjaxWithOptions resumes
\* after its await and calls $.ajax(options)
Resolve(p, o) ==
  /\ calls[p] = Pending
  /\ calls' = [calls EXCEPT ![p] = Resolved(o)]
  /\ transport' = Append(transport, Request(p, o))
  /\ log' = <<>>
  /\ UNCHANGED <<fields, options, value, checked, incorrect, errText, validated>>
  /\ UNCHANGED <<control, stray, bindings>>

\* the promise of the pass p is rejected: the await throws inside
\* callAjaxWithOptions and the promise it returned is rejected, unhandled
Reject(p) ==
  /\ calls[p] = Pending
  /\ calls' = [calls EXCEPT ![p] = Rejected]
  /\ log' = <<>>
  /\ UNCHANGED <<fields, options, value, checked, incorrect, errText, validated>>
  /\ UNCHANGED <<transport, control, stray, bindings>>

NextEs6 ==
  \/ \E f \in FieldIds : \E v \in ValuesOf(f) : SetValue(f, v)
  \/ ClickValidateEs6
  \/ \E p \in DOMAIN calls : \E o \in ResolvedOptions : Resolve(p, o)
  \/ \E p \in DOMAIN calls : Reject(p)

SpecEs6 == InitEs6 /\ [][NextEs6]_vars

(***************************************************************************)
(* Vocabulary of the properties                                            *)
(***************************************************************************)
\* the last handler was a validation pass, and log holds its calls
PassDone == log # <<>> /\ log[1] = Event("removeIncorrectState", 0)

\* the positions of the pass at which a call was made
Pos(name, f) == {i \in DOMAIN log : log[i] = Event(name, f)}

Called(name, f) == Pos(name, f) # {}

\* the positions at which a field was evaluated or marked
FieldPos ==
  {i \in DOMAIN log : log[i].ev \in {"validateField", "throwError", "addClassValidated"}}

Before(I, J) == \A i \in I : \A j \in J : i < j

Required(f) == fields[f].validation = "required"

\* field f passed in the last pass
Passed(f) == ~incorrect[f] /\ Called("addClassValidated", f)

\* field f failed in the last pass
Failed(f) == incorrect[f] /\ ~Called("addClassValidated", f)

(***************************************************************************)
(* C1: in every pass the steps happen in the order reset, beforeValidation,*)
(* evaluation of every required field, onValid and the transport (if the  *)
(* form is valid), afterValidation; beforeValidation is invoked before    *)
(* any field is evaluated or marked.                                      *)
(***************************************************************************)
C1_FixedOrder ==
  PassDone =>
    /\ log[1] = Event("removeIncorrectState", 0)
    /\ Before(Pos("beforeValidation", 0), FieldPos)
    /\ Before(FieldPos, Pos("onValid", 0) \cup Pos("ajax", 0))
    /\ Before(Pos("onValid", 0), Pos("ajax", 0))
    /\ Before(DOMAIN log \ Pos("afterValidation", 0), Pos("afterValidation", 0))

(***************************************************************************)
(* C2: the valid flag is cleared at the start of every pass, so the flag  *)
(* seen at the decide step is set only if some required field passed in   *)
(* the current pass.                                                      *)
(***************************************************************************)
C2_FlagFromCurrentPass ==
  (PassDone /\ validated) => \E f \in FieldIds : Called("addClassValidated", f)

(***************************************************************************)
(* C3: in every pass afterValidation is invoked exactly once; onValid is  *)
(* invoked at most once, and only in a pass whose decide step finds the   *)
(* form valid, never in a pass that marked a field incorrect.             *)
(***************************************************************************)
C3_HooksPerPass ==
  PassDone =>
    /\ options.afterValidation = JsFunction =>
         Cardinality(Pos("afterValidation", 0)) = 1
    /\ Cardinality(Pos("onValid", 0)) <= 1
    /\ Called("onValid", 0) =>
         /\ formIsValid(Dom)
         /\ \A f \in FieldIds : ~Called("throwError", f)

\* a pass that marked a field incorrect, with both hooks configured
C3_Witness ==
  /\ PassDone
  /\ options.afterValidation = JsFunction
  /\ options.onValid = JsFunction
  /\ \E f, g \in FieldIds : Called("throwError", f) /\ Called("addClassValidated", g)
  /\ Called("afterValidation", 0)
  /\ ~Called("onValid", 0)

(***************************************************************************)
(* C4: a required text field whose control has no data-validation-        *)
(* condition passes for every non-empty value and fails only for the      *)
(* empty value.                                                           *)
(***************************************************************************)
C4_TextWithoutCondition ==
  PassDone =>
    \A f \in FieldIds :
      (Required(f) /\ fields[f].type = "text" /\ fields[f].condition = NoAttr) =>
        IF value[f] = "" THEN Failed(f) ELSE Passed(f)

(***************************************************************************)
(* C5: a pass never evaluates a field that is not marked required and     *)
(* leaves its incorrect marker and its rendered message as they were      *)
(* before the pass, also when it carried the marker.                      *)
(***************************************************************************)
NeverEvaluated(f) ==
  \A i \in DOMAIN log' :
    log'[i].f = f => log'[i].ev \notin {"validateField", "throwError", "addClassValidated"}

C5_NotRequiredUntouched ==
  [][log' # <<>> =>
       \A f \in FieldIds :
         ~Required(f) =>
           /\ NeverEvaluated(f)
           /\ incorrect'[f] = incorrect[f]
           /\ errText'[f] = errText[f]]_vars

\* C5 as amended: a pass never evaluates a field that is not marked
\* required and leaves its rendered message as it was; the reset step
\* clears the incorrect marker of the field, so a field that carried the
\* marker before the pass does not carry it after the pass.
C5_NotRequiredOnlyReset ==
  [][log' # <<>> =>
       \A f \in FieldIds :
         ~Required(f) =>
           /\ NeverEvaluated(f)
           /\ ~incorrect'[f]
           /\ errText'[f] = errText[f]]_vars

\* a pass has cleared the marker of a field that is not marked required
C5_Witness ==
  /\ PassDone
  /\ \E f \in FieldIds :
       /\ ~Required(f)
       /\ Called("removeClassIncorrect", f)
       /\ ~incorrect[f]
       /\ value[f] # ""

(***************************************************************************)
(* C6: a required text, phone or email field whose value is empty is      *)
(* marked incorrect with the emptyField message of the configured locale, *)
(* whatever its condition and its data-validation-text, and it does not   *)
(* set the valid flag.                                                    *)
(***************************************************************************)
C6_EmptyField ==
  PassDone =>
    \A f \in FieldIds :
      (Required(f) /\ fields[f].type \in {"text", "phone", "email"} /\ value[f] = "") =>
        /\ incorrect[f]
        /\ errText[f] = Lang[lang].emptyField
        /\ ~Called("addClassValidated", f)

\* an empty field with a condition and a custom text, after a pass that
\* followed a pass in which the field had a value
C6_Witness ==
  /\ PassDone
  /\ \E f \in FieldIds :
       /\ Required(f)
       /\ fields[f].type = "phone"
       /\ fields[f].condition = "equal"
       /\ fields[f].text = "Incorrect data"
       /\ value[f] = ""
       /\ validated
       /\ errText[f] = Lang[lang].emptyField

(***************************************************************************)
(* C7: for a required field whose value is not empty and whose condition  *)
(* fails, the rendered message is the field's data-validation-text when   *)
(* that attribute is a non-empty string, and otherwise the message        *)
(* computed for the type and condition of the field.                      *)
(***************************************************************************)
C7_MessagePrecedence ==
  PassDone =>
    \A f \in FieldIds :
      (Required(f) /\ fieldParams(f).length # 0 /\ ~Truthy(fieldParams(f).condition)) =>
        IF fields[f].text \notin {NoAttr, ""}
        THEN errText[f] = fields[f].text
        ELSE fieldParams(f).errorText.t = "string" =>
               errText[f] = fieldParams(f).errorText.v

(***************************************************************************)
(* C8: a required text field with the length condition and no exact       *)
(* length, with a non-empty value of n characters: with both bounds it    *)
(* passes iff min <= n <= max and else shows the message with both        *)
(* bounds; with the maximum only it passes iff n <= max and else shows    *)
(* the maximum message; with the minimum only it passes iff n >= min and  *)
(* else shows the minimum message.  (The unit word that ends a message    *)
(* with one bound is the subject of C12 and is taken as the code reads    *)
(* it.)                                                                   *)
(***************************************************************************)
UnitWord == JsToString(LangGet(lang, "symbols"))

C8_PassesOrShows(f, passes, message) ==
  IF passes THEN Passed(f) ELSE Failed(f) /\ errText[f] = message

C8_LengthBounds ==
  PassDone =>
    \A f \in FieldIds :
      LET n == Len(value[f])
          mn == fields[f].dataMinLength
          mx == fields[f].dataMaxLength
      IN  ( /\ Required(f) /\ fields[f].type = "text"
            /\ fields[f].condition = "length" /\ fields[f].dataLength = NoAttr
            /\ fields[f].text = NoAttr
            /\ n # 0 ) =>
            /\ (mn # NoAttr /\ mx # NoAttr) =>
                 C8_PassesOrShows(f,
                   NumeralValue(mn) <= n /\ n <= NumeralValue(mx),
                   Lang[lang].minMaxFieldLengthFirst \o mx
                     \o Lang[lang].minMaxFieldLengthSecond \o mn)
            /\ (mn = NoAttr /\ mx # NoAttr) =>
                 C8_PassesOrShows(f, n <= NumeralValue(mx),
                   Lang[lang].maxFieldLength \o mx \o " " \o UnitWord)
            /\ (mn # NoAttr /\ mx = NoAttr) =>
                 C8_PassesOrShows(f, n >= NumeralValue(mn),
                   Lang[lang].minFieldLength \o mn \o " " \o UnitWord)

(***************************************************************************)
(* C9: a required text field with the length condition and none of        *)
(* data-length, data-min-length, data-max-length passes for every         *)
(* non-empty value and fails only for the empty value.                    *)
(***************************************************************************)
C9_LengthWithoutBounds ==
  PassDone =>
    \A f \in FieldIds :
      ( /\ Required(f) /\ fields[f].type = "text" /\ fields[f].condition = "length"
        /\ fields[f].dataLength = NoAttr /\ fields[f].dataMinLength = NoAttr
        /\ fields[f].dataMaxLength = NoAttr ) =>
        IF value[f] = "" THEN Failed(f) ELSE Passed(f)

(***************************************************************************)
(* C10: a required text field with the equal condition, for every         *)
(* data-equal string e and non-empty value v: it passes iff v and e are   *)
(* the same string, and is else marked incorrect with the notEqual        *)
(* message.                                                               *)
(***************************************************************************)
C10_Equal ==
  PassDone =>
    \A f \in FieldIds :
      ( /\ Required(f) /\ fields[f].type = "text" /\ fields[f].condition = "equal"
        /\ fields[f].dataEqual # NoAttr /\ fields[f].text = NoAttr
        /\ value[f] # "" ) =>
        IF value[f] = fields[f].dataEqual
        THEN Passed(f)
        ELSE Failed(f) /\ errText[f] = Lang[lang].notEqual

(***************************************************************************)
(* C11: a required select field fails, with the incorrectSelect message,  *)
(* when the selected value is "0" or empty, and passes for every other    *)
(* selected value, such as "00", " " or a string that is no number.       *)
(***************************************************************************)
C11_Select ==
  PassDone =>
    \A f \in FieldIds :
      (Required(f) /\ fields[f].type = "select") =>
        IF value[f] \in {"", "0"}
        THEN Failed(f) /\ (fields[f].text = NoAttr => errText[f] = Lang[lang].incorrectSelect)
        ELSE Passed(f)

\* C11 as amended: a required select field fails, with the incorrectSelect
\* message, when the selected value is empty or converts to the number 0
\* ("0", "00", "0.0", a string of white space), and passes for every other
\* selected value.
C11_SelectLooseZero ==
  PassDone =>
    \A f \in FieldIds :
      (Required(f) /\ fields[f].type = "select") =>
        IF value[f] \in {"", " ", "0", "00", "0.0"}
        THEN Failed(f) /\ (fields[f].text = NoAttr => errText[f] = Lang[lang].incorrectSelect)
        ELSE Passed(f)

\* a select field whose selected value "00" has failed, after it had passed
C11_Witness ==
  /\ PassDone
  /\ \E f \in FieldIds :
       /\ Required(f) /\ fields[f].type = "select" /\ fields[f].text = NoAttr
       /\ value[f] = "00"
       /\ Failed(f)
       /\ validated
       /\ errText[f] = Lang[lang].incorrectSelect

(***************************************************************************)
(* C12: in both locales a required text field that fails its length       *)
(* condition on a non-empty value shows, for an exact length, for a       *)
(* maximum only and for a minimum only, the prefix of the locale, the     *)
(* declared bound as written, a space and the unit word of the locale;    *)
(* with a minimum and a maximum it shows the message with both bounds as  *)
(* written.  (Bounds of zero are the subject of C8 and are left out.)     *)
(***************************************************************************)
C12_UnitWord == IF lang = "en" THEN "symbols" ELSE "simvolov"

C12_Shows(f, prefix, bound) ==
  errText[f] = prefix \o bound \o " " \o C12_UnitWord

C12_LengthMessages ==
  PassDone =>
    \A f \in FieldIds :
      LET l == fields[f].dataLength
          mn == fields[f].dataMinLength
          mx == fields[f].dataMaxLength
      IN  ( /\ Required(f) /\ fields[f].type = "text"
            /\ fields[f].condition = "length" /\ fields[f].text = NoAttr
            /\ "0" \notin {l, mn, mx}
            /\ value[f] # "" /\ Failed(f) ) =>
            /\ l # NoAttr => C12_Shows(f, Lang[lang].reqFieldLength, l)
            /\ (l = NoAttr /\ mn = NoAttr /\ mx # NoAttr) =>
                 C12_Shows(f, Lang[lang].maxFieldLength, mx)
            /\ (l = NoAttr /\ mn # NoAttr /\ mx = NoAttr) =>
                 C12_Shows(f, Lang[lang].minFieldLength, mn)
            /\ (l = NoAttr /\ mn # NoAttr /\ mx # NoAttr) =>
                 errText[f] = Lang[lang].minMaxFieldLengthFirst \o mx
                                \o Lang[lang].minMaxFieldLengthSecond \o mn

C14_CheckboxNeedsChecked ==
  PassDone =>
    \A f \in FieldIds :
      (Required(f) /\ fields[f].type = "checkbox") =>
        /\ Passed(f) => checked[f] >= 1
        /\ checked[f] = 0 => Failed(f)

(***************************************************************************)
(* C15: a required radio field passes iff at least one radio input inside *)
(* it is checked and visible, and is marked incorrect with none; the      *)
(* branch of the empty value is never taken for it, so a failed radio     *)
(* field with a custom text shows the custom text and not the emptyField  *)
(* message.                                                               *)
(***************************************************************************)
C15_Radio ==
  PassDone =>
    \A f \in FieldIds :
      (Required(f) /\ fields[f].type = "radio") =>
        /\ Passed(f) <=> checked[f] >= 1
        /\ Failed(f) <=> checked[f] = 0
        /\ (Failed(f) /\ fields[f].text = "Incorrect data") =>
             errText[f] = "Incorrect data"

\* a radio field has passed with a checked radio input, after it had
\* failed with its custom text
C15_Witness ==
  /\ PassDone
  /\ \E f \in FieldIds :
       /\ Required(f) /\ fields[f].type = "radio"
       /\ checked[f] = 1
       /\ Passed(f)
       /\ errText[f] = "Incorrect data"

(***************************************************************************)
(* C16: a required radio field that fails and has no data-validation-text *)
(* shows the incorrectSelect message of the locale.                       *)
(***************************************************************************)
C16_RadioMessage ==
  PassDone =>
    \A f \in FieldIds :
      (Required(f) /\ fields[f].type = "radio" /\ fields[f].text = NoAttr /\ Failed(f)) =>
        errText[f] = Lang[lang].incorrectSelect

\* C16 as amended: a required radio field that fails and has no
\* data-validation-text shows the emptyField message of the locale, the
\* default message of validateField, and not the incorrectSelect message.
C16_RadioShowsEmptyField ==
  PassDone =>
    \A f \in FieldIds :
      (Required(f) /\ fields[f].type = "radio" /\ fields[f].text = NoAttr /\ Failed(f)) =>
        /\ errText[f] = Lang[lang].emptyField
        /\ errText[f] # Lang[lang].incorrectSelect

\* a radio field with no checked radio input has failed, after it had
\* passed
C16_Witness ==
  /\ PassDone
  /\ validated
  /\ \E f \in FieldIds :
       /\ Required(f) /\ fields[f].type = "radio" /\ fields[f].text = NoAttr
       /\ checked[f] = 0
       /\ Failed(f)
       /\ errText[f] = Lang[lang].emptyField

(***************************************************************************)
(* C17: the construction of a Validator with a lang option other than     *)
(* "en" and "ru" fails, so that no instance with an unknown locale exists *)
(* and no pass runs with a message catalog that is not resolved.          *)
(***************************************************************************)
C17_KnownLocale == PassDone => options.lang \in {"en", "ru"}

(***************************************************************************)
(* C19: in a pass that finds the form valid, with AJAX options that are   *)
(* falsy the onValid hook is invoked and the transport is not called;     *)
(* with AJAX options present the onValid hook is invoked before the       *)
(* transport and the transport is called exactly once.                    *)
(***************************************************************************)
C19_OnValidAndTransport ==
  (PassDone /\ formIsValid(Dom)) =>
    /\ options.onValid = JsFunction => Cardinality(Pos("onValid", 0)) = 1
    /\ IF Truthy(options.ajax)
       THEN /\ Cardinality(Pos("ajax", 0)) = 1
            /\ Before(Pos("onValid", 0), Pos("ajax", 0))
       ELSE ~Called("ajax", 0)

\* a valid pass with no AJAX options has invoked onValid and no transport
C19_Witness ==
  /\ PassDone
  /\ formIsValid(Dom)
  /\ ~Truthy(options.ajax)
  /\ Called("onValid", 0)
  /\ ~Called("ajax", 0)

(***************************************************************************)
(* C18: when the form is valid and the AJAX options are a function, the   *)
(* pass invokes the function with the validator and awaits its result;    *)
(* the transport is handed the options it resolved to, once, and only     *)
(* after the resolution; while the call is pending and when it is         *)
(* rejected the transport is not called for that pass.                    *)
(***************************************************************************)
RequestsOf(p) == {i \in DOMAIN transport : transport[i].pass = p}

C20_PassesNotFenced ==
  [][ /\ ((\E p \in DOMAIN calls : calls[p] = Pending) /\ Len(calls') > Len(calls)) =>
           /\ \A p \in DOMAIN calls : calls'[p] = calls[p]
           /\ SubSeq(transport', 1, Len(transport)) = transport
           /\ log'[1] = Event("removeIncorrectState", 0)
           /\ \A f \in FieldIds :
                Required(f) => \E i \in DOMAIN log' : log'[i] = Event("validateField", f)
           /\ calls'[Len(calls')] = Pending
                <=> (options.ajax = JsFunction /\ validated' /\ \A f \in FieldIds : ~incorrect'[f])
      /\ \A p \in DOMAIN calls :
           (calls[p] = Pending /\ calls'[p].st = "resolved") =>
             transport' = Append(transport, Request(p, calls'[p].options))
    ]_vars

\* the request of the first pass was handed to the transport after the
\* request of the second pass
C20_Witness ==
  /\ Len(calls) >= 2
  /\ transport = <<Request(2, "options A"), Request(1, "options B")>>

(***************************************************************************)
(* C21: a hook option that is neither a function nor null or undefined    *)
(* only logs a warning: the pass goes on through the step of              *)
(* afterValidation, its steps keep their order, no hook is invoked, and   *)
(* the markers of the fields and the validity of the form are those of    *)
(* the evaluation of the fields.                                          *)
(***************************************************************************)
HookMisuse ==
  /\ options.beforeValidation = JsStr("hook")
  /\ options.onValid = JsStr("hook")
  /\ options.afterValidation = JsStr("hook")

C21_HookMisuseWarns ==
  (PassDone /\ HookMisuse) =>
    LET warns == Pos("console.warn", 0)
        sent == Truthy(options.ajax) /\ formIsValid(Dom)
    IN  /\ Cardinality(warns) = IF formIsValid(Dom) THEN 3 ELSE 2
        /\ \A i \in DOMAIN log :
             log[i].ev \notin {"beforeValidation", "onValid", "afterValidation", "TypeError"}
        /\ log[1] = Event("removeIncorrectState", 0)
        /\ log[Len(log)] = Event("console.warn", 0)
        /\ Before(FieldPos, warns)
        /\ Called("ajax", 0) <=> sent
        /\ sent => log[Len(log) - 1] = Event("ajax", 0) /\ log[Len(log) - 2] = Event("console.warn", 0)
        /\ \A f \in FieldIds :
             /\ Required(f) => Called("validateField", f)
             /\ incorrect[f] <=> Called("throwError", f)

\* a valid pass with three hook options that are strings has warned three
\* times and has handed the request to the transport
C21_Witness ==
  /\ PassDone
  /\ HookMisuse
  /\ formIsValid(Dom)
  /\ Cardinality(Pos("console.warn", 0)) = 3
  /\ Called("ajax", 0)

(***************************************************************************)
(* C24: a pass that follows a pass, with no change of a field in between, *)
(* has the outcome of the first: the same fields marked incorrect, the    *)
(* same rendered messages, the same validity of the form and the same     *)
(* calls of the hooks and of the transport.                               *)
(***************************************************************************)
HookEvents == {"beforeValidation", "onValid", "ajax", "afterValidation", "console.warn"}

C24_SamePassTwice ==
  [][(log # <<>> /\ log' # <<>>) =>
       /\ incorrect' = incorrect
       /\ errText' = errText
       /\ validated' = validated
       /\ SelectSeq(log', LAMBDA e : e.ev \in HookEvents)
            = SelectSeq(log, LAMBDA e : e.ev \in HookEvents)
       /\ \A f \in FieldIds :
            /\ (\E i \in DOMAIN log' : log'[i] = Event("throwError", f)) <=> Called("throwError", f)
            /\ (\E i \in DOMAIN log' : log'[i] = Event("addClassValidated", f))
                 <=> Called("addClassValidated", f)]_vars

\* a pass has cleared the marker an earlier pass had set on a field, has
\* marked the field again and has passed another field
C24_Witness ==
  /\ PassDone
  /\ \E f, g \in FieldIds :
       /\ Called("removeClassIncorrect", f)
       /\ Called("throwError", f)
       /\ errText[f] = Lang[lang].emptyField
       /\ Called("addClassValidated", g)

(***************************************************************************)
(* C25: a required email field with a non-empty value passes iff the      *)
(* value matches the email pattern, whatever the case of its letters, and *)
(* is else marked incorrect with the incorrectEmail message: "a@b.com"    *)
(* and "A@B.COM" pass, "not-an-email" and "a@b" fail.                     *)
(***************************************************************************)
C25_Email ==
  PassDone =>
    \A f \in FieldIds :
      (Required(f) /\ fields[f].type = "email" /\ value[f] # "") =>
        IF value[f] \in {"a@b.com", "A@B.COM"}
        THEN Passed(f)
        ELSE /\ Failed(f)
             /\ fields[f].text = NoAttr => errText[f] = Lang[lang].incorrectEmail

\* an address in capital letters has passed, after a value that is no
\* address had failed
C25_Witness ==
  /\ PassDone
  /\ \E f \in FieldIds :
       /\ Required(f) /\ fields[f].type = "email" /\ fields[f].text = NoAttr
       /\ value[f] = "A@B.COM"
       /\ Passed(f)
       /\ errText[f] = Lang[lang].incorrectEmail

(***************************************************************************)
(* C26: a required text field with the length condition and a declared    *)
(* data-length, with a non-empty value of n characters, passes iff n is   *)
(* the declared length, whatever data-min-length and data-max-length      *)
(* say, and else shows the required-length message with that length.      *)
(* (The unit word that ends the message is the subject of C12 and is      *)
(* taken as the code reads it.)                                           *)
(***************************************************************************)
C26_ExactLength ==
  PassDone =>
    \A f \in FieldIds :
      LET l == fields[f].dataLength
      IN  ( /\ Required(f) /\ fields[f].type = "text"
            /\ fields[f].condition = "length" /\ l # NoAttr
            /\ fields[f].text = NoAttr
            /\ value[f] # "" ) =>
            C8_PassesOrShows(f, Len(value[f]) = NumeralValue(l),
              Lang[lang].reqFieldLength \o l \o " " \o UnitWord)

(***************************************************************************)
(* C27: the decision of a pass finds the form valid iff no field carries  *)
(* the incorrect marker and the form carries the valid flag; the flag     *)
(* that a passing field has set is not unset by a field that fails later  *)
(* in the pass.                                                           *)
(***************************************************************************)
C27_ValidityAndFlag ==
  PassDone =>
    /\ options.onValid = JsFunction =>
         (Called("onValid", 0) <=> ((\A f \in FieldIds : ~incorrect[f]) /\ validated))
    /\ Truthy(options.ajax) =>
         (Called("ajax", 0) <=> ((\A f \in FieldIds : ~incorrect[f]) /\ validated))
    /\ (\E g \in FieldIds : Called("addClassValidated", g)) => validated

\* a field has failed after an earlier field of the pass had passed: the
\* flag is set and the form is not valid
C27_Witness ==
  /\ PassDone
  /\ options.onValid = JsFunction
  /\ \E f, g \in FieldIds :
       /\ Before(Pos("addClassValidated", g), Pos("throwError", f))
       /\ Called("addClassValidated", g)
       /\ Called("throwError", f)
  /\ validated
  /\ ~Called("onValid", 0)

(***************************************************************************)
(* C28: a pass invokes onValid and hands a request to the transport only  *)
(* if every required field it evaluated has passed and at least one       *)
(* required field has passed; a pass over a form with no required field   *)
(* that was never validated starts no submission.                         *)
(***************************************************************************)
C28_SubmissionOnlyIfAllPassed ==
  (PassDone /\ (Called("onValid", 0) \/ Called("ajax", 0))) =>
    /\ \A f \in FieldIds : Required(f) => Passed(f) /\ ~Called("throwError", f)
    /\ \E f \in FieldIds : Required(f) /\ Passed(f)

\* a pass over a form with no required field has started no submission
C28_Witness ==
  /\ PassDone
  /\ \A f \in FieldIds : ~Required(f)
  /\ options.onValid = JsFunction
  /\ Truthy(options.ajax)
  /\ \A f \in FieldIds : ~incorrect[f]
  /\ ~Called("onValid", 0)
  /\ ~Called("ajax", 0)

(***************************************************************************)
(* C22: no pass throws, whatever the markup of the required fields (any   *)
(* type, also one the validator does not know, and also a text, phone or  *)
(* email field with no input and no textarea inside): every required      *)
(* field ends passed or marked incorrect, and the pass goes on through    *)
(* afterValidation.                                                       *)
(***************************************************************************)
C22_NoPassThrows ==
  PassDone =>
    /\ \A i \in DOMAIN log : log[i].ev # "TypeError"
    /\ \A f \in FieldIds : Required(f) => Passed(f) \/ Failed(f)
    /\ options.afterValidation = JsFunction => log[Len(log)] = Event("afterValidation", 0)

(***************************************************************************)
(* C23: unbindOnClick removes the binding of the trigger only: after it   *)
(* no pass starts, and the observers that were bound at construction,     *)
(* the clear on a click outside the form and the clear on the close of    *)
(* the modal, stay bound and still clear the incorrect markers.           *)
(***************************************************************************)
AuxEvents == {"click tap", "hidden.bs.modal"}

ClearDone == log # <<>> /\ log[1].ev \in AuxEvents

C23_UnbindOnlyTrigger ==
  [][ /\ (log' # <<>> /\ log'[1] = Event("unbindOnClick", 0)) =>
           bindings' = bindings \ {"click"}
      /\ "click" \notin bindings =>
           /\ "click" \notin bindings'
           /\ ~(log' # <<>> /\ log'[1] = Event("removeIncorrectState", 0))
           /\ (log' # <<>> /\ log'[1].ev \in AuxEvents) => \A f \in FieldIds : ~incorrect'[f]
    ]_vars

\* after unbindOnClick a click outside the form has cleared the marker of
\* a field
C23_Witness ==
  /\ "click" \notin bindings
  /\ log # <<>>
  /\ log[1] = Event("click tap", 0)
  /\ \E f \in FieldIds : Called("removeClassIncorrect", f) /\ ~incorrect[f]

(***************************************************************************)
(* C29: formIsValid() reports the form valid only if the last pass marked *)
(* no required field incorrect: a clear on a click outside the form or on *)
(* the close of the modal, after a pass that marked a required field      *)
(* incorrect, does not make the form valid.                               *)
(***************************************************************************)
C29_ClearNeverValidates ==
  [][ ( /\ PassDone
        /\ \E f \in FieldIds : Required(f) /\ Called("throwError", f)
        /\ log' # <<>> /\ log'[1].ev \in AuxEvents ) =>
        ~formIsValid(Dom)'
    ]_vars

(***************************************************************************)
(* C30: the reset clears every incorrect marker that the decision counts: *)
(* after removeIncorrectState no element of the form carries the marker,  *)
(* also no element that the fields selector does not match, so that a     *)
(* pass in which every required field passes finds the form valid.        *)
(***************************************************************************)
C30_ResetClearsAll ==
  /\ ClearDone => (\A f \in FieldIds : ~incorrect[f]) /\ ~stray
  /\ ( /\ PassDone
       /\ \E f \in FieldIds : Required(f)
       /\ \A f \in FieldIds : Required(f) => Passed(f) ) =>
       Called("onValid", 0)

====
